---- MODULE Spec2Model ----
(***************************************************************************)
(* Model of db/models/account.py: the Account record of table 'accounts'  *)
(* with its operations fetch, update and save, run against a storage       *)
(* backend that enforces the column constraints declared on the class.     *)
(*                                                                         *)
(* The table is the sequence `accounts`; row i carries id i (an Integer    *)
(* primary key assigned by the storage on insert; no operation deletes).   *)
(* One caller issues calls one at a time: from pc = "ready" a call runs    *)
(* its whole handler in one step and leaves the caller at "returned" with  *)
(* the instance it used, the exception raised (if any) and the value       *)
(* returned; NextCall takes the caller back to "ready".                    *)
(***************************************************************************)
EXTENDS Integers, Sequences, FiniteSets

(* ------------------------------ bounds -------------------------------- *)

\* Cap on the number of rows save may insert.  With the unique constraint on
\* account_number the table never holds more rows than there are account
\* numbers, so the cap is reached only when that constraint is taken away.
MaxRows == 3

(* ------------------------------ values -------------------------------- *)

\* Python's None in a string-valued attribute.
None == "<None>"

\* Python's None in the integer attribute id (a transient instance).
NoId == 0

\* enums.AccountType members.
SINGLE == "single"

JOINT == "joint"

AccountType == {SINGLE, JOINT}

\* Account numbers callers use.
AccountNumbers == {"1000034567", "1000034568"}

\* Exception classes seen by the caller; NoError: the call returned.
NoError == "no exception"

ValueError == "ValueError"

IntegrityError == "sqlalchemy.exc.IntegrityError"

\* Messages of the ValueErrors the module raises.
MsgUnknownId == "Unknown account id"

MsgRequired == "Please make sure required fields are filled correctly!"

MsgJoint == "Since account type is joint, hence 2nd depositor is must"

\* Python truthiness of a str-or-None attribute and of an int attribute.
Truthy(s) == s \notin {None, ""}

TruthyInt(n) == n # 0

(* ----------------------------- instances ------------------------------ *)

\* In-memory instances a caller can construct (id unset).  Every attribute
\* ranges over an empty value (None, "" or 0) and the values a row can carry;
\* account_type is None or a member of AccountType.
Instances ==
    [ id             : {NoId},
      account_number : {None} \cup AccountNumbers,
      account_type   : {None} \cup AccountType,
      depositor_1    : {"", "Ram", "Shyam"},
      depositor_2    : {None, "", "Sita"},
      amount         : {0, 1000, 2000},
      maturity_date  : {None, "20-02-2027"},
      agent          : {"", "3197"} ]

\* The instance variable's value while no call has been made.
NoInstance ==
    [ id |-> NoId, account_number |-> None, account_type |-> None,
      depositor_1 |-> "", depositor_2 |-> None, amount |-> 0,
      maturity_date |-> None, agent |-> "" ]

\* Identifiers a caller passes to update (self.id) and to fetch (ids): None,
\* the ids the table can come to hold, and for fetch one it never holds.
UpdateIds == {NoId} \cup (1 .. Cardinality(AccountNumbers))

FetchIdSets == SUBSET (1 .. Cardinality(AccountNumbers) + 1)

VARIABLES
    accounts,     \* the table 'accounts': a sequence of rows, accounts[i].id = i
    pc,           \* the caller: "ready" or "returned"
    op,           \* the operation of the last call: "none", "save", "update", "fetch"
    self,         \* the instance the last save/update was called on
    ids,          \* the ids argument of the last fetch
    raised,       \* the exception class the last call raised, or NoError
    message,      \* the message of that exception, or ""
    returned_id,  \* what the last save returned (_id), NoId otherwise
    fetched       \* what the last fetch returned, as a set of rows

vars == <<accounts, pc, op, self, ids, raised, message, returned_id, fetched>>

(* --------------------------- storage backend -------------------------- *)

\* Column(..., nullable=False) on every column but depositor_2.
NotNullViolation(row) ==
    \/ row.account_number = None
    \/ row.account_type = None
    \/ row.depositor_1 = None
    \/ row.maturity_date = None
    \/ row.agent = None

\* The storage with the unique constraint on account_number left out.
UniqueViolation_Unenforced(table, row) == FALSE

\* Column(String(30), unique=True): another row holds row's account_number.
UniqueViolation(table, row) ==
    \E j \in DOMAIN table :
        /\ table[j].id # row.id
        /\ table[j].account_number = row.account_number

\* Primary key: the storage hands out the next unused integer.
NextId(table) == Len(table) + 1

\* session.query(Account).filter_by(id=...).first(): the row, or none.
HasRow(table, i) == i \in DOMAIN table

(* ----------------------------- validation ----------------------------- *)

\* required_fields without the agent.
required_fields_NoAgent(inst) ==
    << Truthy(inst.account_number), Truthy(inst.account_type),
       Truthy(inst.depositor_1), TruthyInt(inst.amount),
       Truthy(inst.maturity_date) >>

\* _is_valid's list required_fields, each entry by its truthiness.
required_fields(inst) ==
    << Truthy(inst.account_number), Truthy(inst.account_type),
       Truthy(inst.depositor_1), TruthyInt(inst.amount),
       Truthy(inst.maturity_date), Truthy(inst.agent) >>

\* The joint rule applied whatever the account type.
_is_valid_joint_account_AnyType(inst) ==
    IF ~Truthy(inst.depositor_2)
    THEN [ok |-> FALSE, message |-> MsgJoint]
    ELSE [ok |-> TRUE, message |-> ""]

\* _is_valid_joint_account: (is_valid, error_message).
_is_valid_joint_account(inst) ==
    IF inst.account_type = JOINT /\ ~Truthy(inst.depositor_2)
    THEN [ok |-> FALSE, message |-> MsgJoint]
    ELSE [ok |-> TRUE, message |-> ""]

\* _is_valid: (is_valid, error_message); the first failing rule decides.
_is_valid(inst) ==
    IF \E k \in DOMAIN required_fields(inst) : ~required_fields(inst)[k]
    THEN [ok |-> FALSE, message |-> MsgRequired]
    ELSE _is_valid_joint_account(inst)

(* ------------------------------- update ------------------------------- *)

\* Each step of update's body: the loaded row after the step.
SetAccountNumber(account, inst) ==
    IF Truthy(inst.account_number)
    THEN [account EXCEPT !.account_number = inst.account_number]
    ELSE account

\* The joint check of update left out.
JointCheckFails_Never(inst) == FALSE

\* update raises in the account_type branch: JOINT without a 2nd depositor.
JointCheckFails(inst) ==
    /\ Truthy(inst.account_type)
    /\ inst.account_type = JOINT
    /\ ~Truthy(inst.depositor_2)

\* The account_type branch that leaves depositor_2 alone when not JOINT.
SetAccountType_KeepDepositor2(account, inst) ==
    IF Truthy(inst.account_type)
    THEN IF inst.account_type = JOINT
         THEN [account EXCEPT !.account_type = inst.account_type,
                              !.depositor_2 = inst.depositor_2]
         ELSE [account EXCEPT !.account_type = inst.account_type]
    ELSE account

\* The account_type branch when it does not raise.
SetAccountType(account, inst) ==
    IF Truthy(inst.account_type)
    THEN IF inst.account_type = JOINT
         THEN [account EXCEPT !.account_type = inst.account_type,
                              !.depositor_2 = inst.depositor_2]
         ELSE [account EXCEPT !.account_type = inst.account_type,
                              !.depositor_2 = None]
    ELSE account

\* The depositor_1 step without its truthiness test.
SetDepositor1_Always(account, inst) ==
    [account EXCEPT !.depositor_1 = inst.depositor_1]

SetDepositor1(account, inst) ==
    IF Truthy(inst.depositor_1)
    THEN [account EXCEPT !.depositor_1 = inst.depositor_1]
    ELSE account

\* The amount step without its truthiness test.
SetAmount_Always(account, inst) == [account EXCEPT !.amount = inst.amount]

SetAmount(account, inst) ==
    IF TruthyInt(inst.amount)
    THEN [account EXCEPT !.amount = inst.amount]
    ELSE account

SetMaturityDate(account, inst) ==
    IF Truthy(inst.maturity_date)
    THEN [account EXCEPT !.maturity_date = inst.maturity_date]
    ELSE account

SetAgent(account, inst) ==
    IF Truthy(inst.agent)
    THEN [account EXCEPT !.agent = inst.agent]
    ELSE account

\* The body of update on the loaded row: the exception raised (if any) and
\* the row as the session holds it when the body ends.
UpdateBody(account, inst) ==
    LET a1 == SetAccountNumber(account, inst) IN
    IF JointCheckFails(inst)
    THEN [ raised  |-> ValueError, message |-> MsgJoint,
           account |-> [a1 EXCEPT !.account_type = inst.account_type] ]
    ELSE [ raised  |-> NoError, message |-> "",
           account |-> SetAgent(SetMaturityDate(SetAmount(SetDepositor1(
                           SetAccountType(a1, inst), inst), inst), inst), inst) ]

(* --------------------------- scoped session --------------------------- *)

\* db_client.get_scoped_session() around a body that ended with `outcome`
\* holding `row` (a new row, or the changed row outcome.row.id): the
\* exception the caller sees and the table afterwards.  A body that raised
\* is rolled back; otherwise the row is flushed, and a constraint violation
\* raises IntegrityError and rolls back; otherwise the change is committed.
ScopedSession(table, outcome) ==
    LET row == outcome.account IN
    IF outcome.raised # NoError
    THEN [raised |-> outcome.raised, message |-> outcome.message, table |-> table]
    ELSE IF NotNullViolation(row) \/ UniqueViolation(table, row)
    THEN [raised |-> IntegrityError, message |-> "constraint failed", table |-> table]
    ELSE [ raised |-> NoError, message |-> "",
           table |-> IF HasRow(table, row.id)
                     THEN [table EXCEPT ![row.id] = row]
                     ELSE Append(table, row) ]

\* update that returns quietly when no row has the id.
UpdateOutcome_IgnoreUnknown(table, inst) ==
    IF ~HasRow(table, inst.id)
    THEN [raised |-> NoError, message |-> "", table |-> table]
    ELSE ScopedSession(table, UpdateBody(table[inst.id], inst))

\* update on `table`: the exception the caller sees and the table afterwards.
UpdateOutcome(table, inst) ==
    IF ~HasRow(table, inst.id)
    THEN [raised |-> ValueError, message |-> MsgUnknownId, table |-> table]
    ELSE ScopedSession(table, UpdateBody(table[inst.id], inst))

\* save on `table`: the exception the caller sees, the table afterwards and
\* the identifier flush assigned (NoId when nothing was inserted).
SaveOutcome(table, inst) ==
    LET valid == _is_valid(inst) IN
    IF ~valid.ok
    THEN [raised |-> ValueError, message |-> valid.message, table |-> table,
          id |-> NoId]
    ELSE LET done == ScopedSession(table,
                        [ raised |-> NoError, message |-> "",
                          account |-> [inst EXCEPT !.id = NextId(table)] ])
         IN  [ raised |-> done.raised, message |-> done.message,
               table |-> done.table,
               id |-> IF done.raised = NoError THEN NextId(table) ELSE NoId ]

(* -------------------------------- fetch ------------------------------- *)

\* The query with its filter left out.
Query_All(table, idset) == { table[j] : j \in DOMAIN table }

\* session.query(Account).filter(Account.id.in_(ids)).all()
Query(table, idset) ==
    LET hits == SelectSeq(table, LAMBDA r : r.id \in idset)
    IN  { hits[k] : k \in DOMAIN hits }

(* ------------------------------- actions ------------------------------ *)

Init ==
    /\ accounts = << >>
    /\ pc = "ready"
    /\ op = "none"
    /\ self = NoInstance
    /\ ids = {}
    /\ raised = NoError
    /\ message = ""
    /\ returned_id = NoId
    /\ fetched = {}

\* Account.fetch(db_client, idset)
Fetch(idset) ==
    /\ pc = "ready"
    /\ pc' = "returned"
    /\ op' = "fetch"
    /\ ids' = idset
    /\ fetched' = Query(accounts, idset)
    /\ raised' = NoError
    /\ message' = ""
    /\ self' = NoInstance
    /\ returned_id' = NoId
    /\ UNCHANGED accounts

\* inst.update(db_client), inst.id = i
Update(inst, i) ==
    /\ pc = "ready"
    /\ pc' = "returned"
    /\ op' = "update"
    /\ self' = [inst EXCEPT !.id = i]
    /\ LET done == UpdateOutcome(accounts, [inst EXCEPT !.id = i])
       IN  /\ raised' = done.raised
           /\ message' = done.message
           /\ accounts' = done.table
    /\ ids' = {}
    /\ fetched' = {}
    /\ returned_id' = NoId

\* inst.save(db_client), inst a transient instance (id unset); on success
\* flush has set inst.id, which save returns.
Save(inst) ==
    /\ pc = "ready"
    /\ Len(accounts) < MaxRows
    /\ pc' = "returned"
    /\ op' = "save"
    /\ LET done == SaveOutcome(accounts, inst)
       IN  /\ raised' = done.raised
           /\ message' = done.message
           /\ accounts' = done.table
           /\ self' = [inst EXCEPT !.id = done.id]
           /\ returned_id' = done.id
    /\ ids' = {}
    /\ fetched' = {}

\* The caller is done with the last call's result and may call again.
NextCall ==
    /\ pc = "returned"
    /\ pc' = "ready"
    /\ op' = "none"
    /\ self' = NoInstance
    /\ ids' = {}
    /\ raised' = NoError
    /\ message' = ""
    /\ returned_id' = NoId
    /\ fetched' = {}
    /\ UNCHANGED accounts

Next ==
    \/ pc = "ready" /\ \E idset \in FetchIdSets : Fetch(idset)
    \/ pc = "ready" /\ \E inst \in Instances, i \in UpdateIds : Update(inst, i)
    \/ pc = "ready" /\ \E inst \in Instances : Save(inst)
    \/ NextCall

Spec == Init /\ [][Next]_vars

(* ------------------------------- claims ------------------------------- *)

\* The step is a call of operation o: the caller goes from ready to returned.
Called(o) == pc = "ready" /\ pc' = "returned" /\ op' = o

\* The caller has just returned from a call of operation o.
Returned(o) == pc = "returned" /\ op = o

\* Some required attribute of the instance is empty.
MissingRequired(inst) ==
    \/ ~Truthy(inst.account_number)
    \/ ~Truthy(inst.account_type)
    \/ ~Truthy(inst.depositor_1)
    \/ ~TruthyInt(inst.amount)
    \/ ~Truthy(inst.maturity_date)
    \/ ~Truthy(inst.agent)

\* The instance asks for a joint account without a second depositor.
JointWithoutDepositor2(inst) ==
    inst.account_type = JOINT /\ ~Truthy(inst.depositor_2)

\* The identifiers of the rows of a table.
RowIds(table) == { table[j].id : j \in DOMAIN table }

\* Some row of the table other than row `i` holds account number `n`.
HeldByOther(table, n, i) ==
    \E j \in DOMAIN table : table[j].id # i /\ table[j].account_number = n

\* The error kind of validation failures: what save raises at line 81 and
\* update at line 51.
ValidationError == ValueError

\* C1 (as claimed): in every reachable table, every row has depositor_2
\* non-empty if and only if its account_type is JOINT.
C1_Depositor2IffJoint ==
    \A j \in DOMAIN accounts :
        Truthy(accounts[j].depositor_2) <=> accounts[j].account_type = JOINT

\* C2: a save of an instance with an empty required attribute raises the
\* validation error and leaves the table as it was.
C2_SaveMissingRequiredFails ==
    [][ (Called("save") /\ MissingRequired(self'))
            => (raised' = ValidationError /\ accounts' = accounts) ]_vars

C2_Witness ==
    /\ Returned("save")
    /\ MissingRequired(self)
    /\ ~Truthy(self.agent)
    /\ Truthy(self.account_number)
    /\ raised = ValidationError
    /\ Len(accounts) = 1

\* C3: for an instance of type JOINT with depositor_2 empty, save, and update
\* on an existing id, raise the validation error and leave the table as it
\* was (the account_number and account_type update assigned are not kept).
C3_JointWithoutDepositor2Fails ==
    [][ ( /\ JointWithoutDepositor2(self')
          /\ \/ Called("save")
             \/ Called("update") /\ self'.id \in RowIds(accounts) )
            => (raised' = ValidationError /\ accounts' = accounts) ]_vars

C3_Witness ==
    /\ Returned("update")
    /\ self.id \in RowIds(accounts)
    /\ JointWithoutDepositor2(self)
    /\ Truthy(self.account_number)
    /\ accounts[self.id].account_number # self.account_number
    /\ accounts[self.id].account_type = SINGLE
    /\ raised = ValidationError

\* C4 (as claimed): update on an id no row has fails with an error of a kind
\* other than the validation error and leaves the table as it was.
C4_UnknownIdDistinctError ==
    [][ (Called("update") /\ self'.id \notin RowIds(accounts))
            => ( /\ raised' \notin {NoError, ValidationError}
                 /\ accounts' = accounts ) ]_vars

\* C4 (amended): update on an id no row has raises ValueError, the class of
\* the validation errors, with the message "Unknown account id", and leaves
\* the table as it was.
C4_UnknownIdValueError ==
    [][ (Called("update") /\ self'.id \notin RowIds(accounts))
            => ( /\ raised' = ValueError
                 /\ message' = MsgUnknownId
                 /\ message' \notin {MsgRequired, MsgJoint}
                 /\ accounts' = accounts ) ]_vars

C4_Witness ==
    /\ Returned("update")
    /\ self.id \notin RowIds(accounts)
    /\ self.id # NoId
    /\ raised = ValueError
    /\ message = MsgUnknownId
    /\ Len(accounts) = 1

\* C5: an update that succeeds leaves the table with the same rows, the
\* target row with its id, each of its six attributes equal to the
\* instance's when that is non-empty and to the stored one otherwise, and
\* every other row as it was.
C5_SparseUpdate ==
    [][ (Called("update") /\ raised' = NoError)
            => /\ self'.id \in RowIds(accounts)
               /\ Len(accounts') = Len(accounts)
               /\ LET old == accounts[self'.id]
                      new == accounts'[self'.id]
                  IN  /\ new.id = old.id
                      /\ new.account_number =
                            IF Truthy(self'.account_number)
                            THEN self'.account_number ELSE old.account_number
                      /\ new.account_type =
                            IF Truthy(self'.account_type)
                            THEN self'.account_type ELSE old.account_type
                      /\ new.depositor_1 =
                            IF Truthy(self'.depositor_1)
                            THEN self'.depositor_1 ELSE old.depositor_1
                      /\ new.amount =
                            IF TruthyInt(self'.amount)
                            THEN self'.amount ELSE old.amount
                      /\ new.maturity_date =
                            IF Truthy(self'.maturity_date)
                            THEN self'.maturity_date ELSE old.maturity_date
                      /\ new.agent =
                            IF Truthy(self'.agent)
                            THEN self'.agent ELSE old.agent
               /\ \A j \in DOMAIN accounts :
                      j # self'.id => accounts'[j] = accounts[j] ]_vars

C5_Witness ==
    /\ Returned("update")
    /\ raised = NoError
    /\ Len(accounts) = 2
    /\ self.amount = 2000
    /\ ~Truthy(self.account_number)
    /\ ~Truthy(self.account_type)
    /\ ~Truthy(self.depositor_1)
    /\ ~Truthy(self.maturity_date)
    /\ ~Truthy(self.agent)
    /\ accounts[self.id].amount = 2000
    /\ accounts[self.id].depositor_1 = "Shyam"
    /\ accounts[3 - self.id].amount = 1000

\* C6 (as claimed): after any update on an existing id whose instance has a
\* non-empty account_type other than JOINT, the stored depositor_2 of the
\* target row is empty.  Stated for tables in which every row has a second
\* depositor exactly when it is JOINT, so that a refutation does not rest on
\* the rows C1_Depositor2IffJoint excludes.
C6_NonJointClearsDepositor2 ==
    [][ ( /\ Called("update")
          /\ C1_Depositor2IffJoint
          /\ self'.id \in RowIds(accounts)
          /\ Truthy(self'.account_type)
          /\ self'.account_type # JOINT )
            => ~Truthy(accounts'[self'.id].depositor_2) ]_vars

\* C6 (amended): after an update that succeeds and whose instance has a
\* non-empty account_type other than JOINT, the stored depositor_2 of the
\* target row is None, whatever the instance's and the stored value were.
C6_CommittedNonJointClearsDepositor2 ==
    [][ ( /\ Called("update")
          /\ raised' = NoError
          /\ Truthy(self'.account_type)
          /\ self'.account_type # JOINT )
            => /\ self'.id \in RowIds(accounts')
               /\ accounts'[self'.id].depositor_2 = None ]_vars

C6_Witness ==
    /\ Returned("update")
    /\ raised = NoError
    /\ self.account_type = SINGLE
    /\ self.depositor_2 = "Sita"
    /\ accounts[self.id].account_type = SINGLE
    /\ accounts[self.id].depositor_2 = None

\* A valid SINGLE instance: the six required attributes non-empty, no
\* second depositor.
ValidSingle(inst) ==
    /\ ~MissingRequired(inst)
    /\ inst.account_type = SINGLE
    /\ ~Truthy(inst.depositor_2)

\* save succeeded: one row more, under an identifier no row had.
SaveInserted ==
    /\ raised' = NoError
    /\ Len(accounts') = Len(accounts) + 1
    /\ returned_id' # NoId
    /\ returned_id' \notin RowIds(accounts)
    /\ RowIds(accounts') = RowIds(accounts) \cup {returned_id'}
    /\ \A j \in DOMAIN accounts : accounts'[j] = accounts[j]

\* C7 (as claimed): every save of a valid SINGLE instance succeeds, adds
\* one row and returns an identifier no row had before.
C7_ValidSingleSaves ==
    [][ (Called("save") /\ ValidSingle(self')) => SaveInserted ]_vars

\* C7 (amended): every save of a valid SINGLE instance whose account_number
\* no stored row holds succeeds, adds one row and returns an identifier no
\* row had before.
C7_ValidSingleFreshNumberSaves ==
    [][ ( /\ Called("save")
          /\ ValidSingle(self')
          /\ ~HeldByOther(accounts, self'.account_number, NoId) )
            => SaveInserted ]_vars

C7_Witness ==
    /\ Returned("save")
    /\ ValidSingle(self)
    /\ raised = NoError
    /\ returned_id = 2
    /\ Len(accounts) = 2
    /\ accounts[2].account_number = self.account_number

\* C8: no two rows ever hold the same account_number, and a save that passes
\* validation, or an update on an existing id that passes the joint check,
\* that would give a row an account_number another row holds raises the
\* storage's IntegrityError and leaves the table as it was.
C8_UniqueAccountNumber ==
    [][ /\ \A j, k \in DOMAIN accounts' :
              accounts'[j].account_number = accounts'[k].account_number => j = k
        /\ ( /\ Called("save")
             /\ ~MissingRequired(self')
             /\ ~JointWithoutDepositor2(self')
             /\ HeldByOther(accounts, self'.account_number, NoId) )
               => (raised' = IntegrityError /\ accounts' = accounts)
        /\ ( /\ Called("update")
             /\ self'.id \in RowIds(accounts)
             /\ ~JointWithoutDepositor2(self')
             /\ Truthy(self'.account_number)
             /\ HeldByOther(accounts, self'.account_number, self'.id) )
               => (raised' = IntegrityError /\ accounts' = accounts) ]_vars

C8_Witness ==
    /\ Returned("update")
    /\ raised = IntegrityError
    /\ Len(accounts) = 2
    /\ self.amount = 2000
    /\ accounts[self.id].amount = 1000
    /\ accounts[3 - self.id].account_number = self.account_number

\* C9: fetch returns exactly the rows whose id is among the ids asked for and
\* leaves the table as it was; and right after a save that returned id i the
\* table holds exactly one row with id i, carrying the saved attributes.
C9_FetchReturnsMatchingRows ==
    [][ /\ Called("fetch")
            => /\ fetched' = { accounts[j] : j \in { k \in DOMAIN accounts :
                                                       accounts[k].id \in ids' } }
               /\ accounts' = accounts
               /\ raised' = NoError
        /\ (Called("save") /\ raised' = NoError)
            => /\ self'.id = returned_id'
               /\ Query(accounts', {returned_id'}) = {self'}
               /\ Cardinality({ k \in DOMAIN accounts' :
                                  accounts'[k].id = returned_id' }) = 1
               /\ accounts'[returned_id'] = self' ]_vars

C9_Witness ==
    /\ Returned("fetch")
    /\ Len(accounts) = 2
    /\ ids = {2, 3}
    /\ fetched = {accounts[2]}

\* C10: in every reachable table, every row has its six required attributes
\* non-empty.
C10_RequiredFieldsStored ==
    \A j \in DOMAIN accounts : ~MissingRequired(accounts[j])

C10_Witness ==
    /\ Returned("update")
    /\ raised = NoError
    /\ self.amount = 0
    /\ self.depositor_1 = ""
    /\ self.agent = ""
    /\ self.account_number = None
    /\ Truthy(self.account_type)
    /\ ~MissingRequired(accounts[self.id])

====
